---- MODULE Spec2Model ----
(***************************************************************************)
(* A model of the Brooklyn events aggregator: the SQLite persistence layer *)
(* (database.py), the scrape orchestrator and its adapters (scrapers.py,   *)
(* playwright_scraper.py) and the scraper job (scraper_job.py).            *)
(***************************************************************************)
EXTENDS Integers, Sequences, FiniteSets, TLC

VARIABLES
    db,       \* the committed content of events.db: events, sqlite_sequence, scraping_runs
    now,      \* the wall clock, in ticks
    writer,   \* the connection holding SQLite's write lock, or NULL
    conn,     \* per caller: the insert_event call in progress
    qres,     \* the last get_upcoming_events call and what it returned
    job,      \* the run_scraper process
    adapter,  \* the last stand-alone adapter call and what it returned
    last,     \* the last whole call of delete_old_events, log_scraping_run,
              \* get_scraping_stats, run_scraper or get_events, and how many were made
    cache     \* events_cache.json

vars == <<db, now, writer, conn, qres, job, adapter, last, cache>>

\* Python's None and SQL's NULL, where a text value is expected.
NULL == "NULL"

\* None / NULL where a date string is expected (a date string has three parts).
NoDate == <<>>

\* None where an integer is expected (cursor.lastrowid, cursor.rowcount).
NoneInt == -1

-----------------------------------------------------------------------------
(* Bounds of the model *)

MaxTime == 2        \* the clock runs from 0 to MaxTime
TicksPerDay == 2    \* clock ticks in one calendar day
MaxRows == 2        \* insert_event is not called once this many rows were inserted
MaxCards == 6       \* event cards on a rendered page
MaxOps == 2         \* whole calls counted in last.n

Procs == {"p1", "p2"}

-----------------------------------------------------------------------------
(* Dates as text.  A date string is <<day, separator, time of day>>; SQLite *)
(* compares TEXT values byte by byte, so the separator takes part.          *)

CharT == 84        \* 'T', the separator datetime.isoformat() writes
CharSpace == 32    \* ' ', the separator SQLite's datetime() writes

isoformat(t) == <<t \div TicksPerDay, CharT, t % TicksPerDay>>

SqlDatetime(t) == <<t \div TicksPerDay, CharSpace, t % TicksPerDay>>

\* The instant a date string denotes.
Instant(d) == d[1] * TicksPerDay + d[3]

\* SQLite's TEXT comparison (memcmp) on date strings.
TextLess(a, b) ==
    \/ a[1] < b[1]
    \/ a[1] = b[1] /\ a[2] < b[2]
    \/ a[1] = b[1] /\ a[2] = b[2] /\ a[3] < b[3]

TextLeq(a, b) == a = b \/ TextLess(a, b)

-----------------------------------------------------------------------------
(* Events and rows *)

PayloadFields ==
    {"title", "description", "date", "location", "latitude", "longitude",
     "distance", "type", "url"}

NullOf(f) == IF f = "date" THEN NoDate ELSE NULL

\* event.get(f): None when the key is absent.
get(ev, f) == IF f \in DOMAIN ev THEN ev[f] ELSE NullOf(f)

\* Python's ==, under which None equals None.
PyEq(a, b) == a = b

\* SQL's = in a WHERE clause: true only for two equal non-NULL values.
SqlEq(a, b) == a # NULL /\ b # NULL /\ a = b

\* WHERE source = ? AND source_id = ?
KeyMatch(row, ev) ==
    /\ SqlEq(row.source, get(ev, "source"))
    /\ SqlEq(row.source_id, get(ev, "source_id"))

\* The columns declared NOT NULL that the UPDATE statement sets.
UpdateNotNull == {"title", "date", "location", "type"}

\* The columns declared NOT NULL that the INSERT statement sets.
InsertNotNull == {"title", "date", "location", "type", "source"}

SetPayload(row, ev) ==
    [f \in DOMAIN row |-> IF f \in PayloadFields THEN get(ev, f) ELSE row[f]]

\* UPDATE events SET ..., updated_at = CURRENT_TIMESTAMP WHERE source = ? AND source_id = ?
\* on table content tbl at time t.
UpdateStmt(tbl, ev, t) ==
    LET matched == {r \in tbl.events : KeyMatch(r, ev)}
        changed == {[SetPayload(r, ev) EXCEPT !.updated_at = t] : r \in matched}
    IN  IF matched # {} /\ \E f \in UpdateNotNull : get(ev, f) = NullOf(f)
        THEN [raised |-> "IntegrityError", tbl |-> tbl, rowcount |-> 0, ids |-> {}]
        ELSE [raised |-> NULL,
              tbl |-> [tbl EXCEPT !.events = (tbl.events \ matched) \cup changed],
              rowcount |-> Cardinality(matched),
              ids |-> {r.id : r \in matched}]

NewRow(id, ev, t) ==
    [id |-> id,
     title |-> get(ev, "title"), description |-> get(ev, "description"),
     date |-> get(ev, "date"), location |-> get(ev, "location"),
     latitude |-> get(ev, "latitude"), longitude |-> get(ev, "longitude"),
     distance |-> get(ev, "distance"), type |-> get(ev, "type"),
     url |-> get(ev, "url"),
     source |-> get(ev, "source"), source_id |-> get(ev, "source_id"),
     created_at |-> t, updated_at |-> t]

\* The INSERT on a table declared without NOT NULL on its columns.
InsertWithoutNotNull(tbl, ev, t) ==
    IF \E r \in tbl.events : KeyMatch(r, ev)
    THEN [raised |-> "IntegrityError", tbl |-> tbl, ids |-> {}]
    ELSE [raised |-> NULL,
          tbl |-> [tbl EXCEPT !.events = @ \cup {NewRow(tbl.seq + 1, ev, t)},
                              !.seq = @ + 1],
          ids |-> {tbl.seq + 1}]

\* INSERT INTO events (...) VALUES (...) under the table's NOT NULL and
\* UNIQUE(source, source_id) constraints; AUTOINCREMENT takes the next id.
InsertStmt(tbl, ev, t) ==
    IF \/ \E f \in InsertNotNull : get(ev, f) = NullOf(f)
       \/ \E r \in tbl.events : KeyMatch(r, ev)
    THEN [raised |-> "IntegrityError", tbl |-> tbl, ids |-> {}]
    ELSE [raised |-> NULL,
          tbl |-> [tbl EXCEPT !.events = @ \cup {NewRow(tbl.seq + 1, ev, t)},
                              !.seq = @ + 1],
          ids |-> {tbl.seq + 1}]

\* cursor.lastrowid after an UPDATE on a fresh connection: 0 where the sqlite3
\* module reads sqlite3_last_insert_rowid() after every statement, None where it
\* sets the attribute after INSERT only.
LastRowidAfterUpdate == {0, NoneInt}

\* if cursor.rowcount == 0: the INSERT runs.
NeedsInsert(rowcount) == rowcount = 0

-----------------------------------------------------------------------------
(* Inputs *)

Sources == {"A", "B"}
SourceIds == {"k"}

Payload1 ==
    [title |-> "t1", description |-> "d1", location |-> "Brooklyn",
     latitude |-> "lat1", longitude |-> "lng1", distance |-> "mi1",
     type |-> "art", url |-> "u1"]

Payload2 ==
    [title |-> "t2", description |-> "d2", location |-> "Red Hook",
     latitude |-> "lat2", longitude |-> "lng2", distance |-> "mi2",
     type |-> "music", url |-> "u2"]

Payloads == {Payload1, Payload2}

Dates == {isoformat(t) : t \in 0..MaxTime}

MkEvent(p, d, s, k) ==
    [title |-> p.title, description |-> p.description, date |-> d,
     location |-> p.location, latitude |-> p.latitude, longitude |-> p.longitude,
     distance |-> p.distance, type |-> p.type, url |-> p.url,
     source |-> s, source_id |-> k]

\* Events for the query operations: every payload on every date.
EventInputs ==
    {MkEvent(p, d, s, k) :
        p \in Payloads, d \in Dates \cup {NoDate}, s \in Sources, k \in SourceIds \cup {NULL}}

\* Events for concurrent callers: two complete payloads and one without a date,
\* under every key.
CallerInputs ==
    {MkEvent(pd[1], pd[2], s, k) :
        pd \in {<<Payload1, isoformat(0)>>, <<Payload2, isoformat(1)>>, <<Payload1, NoDate>>},
        s \in Sources, k \in SourceIds \cup {NULL}}

-----------------------------------------------------------------------------
(* State after construction: init_db() has created two empty tables. *)

EmptyDb == [events |-> {}, seq |-> 0, runs |-> <<>>]

\* A caller with no call in progress holds no event.
NoEvent == [source |-> NULL, source_id |-> NULL]

IdleConn ==
    [pc |-> "idle", event |-> NoEvent, tx |-> EmptyDb, rowcount |-> NoneInt,
     lastrowid |-> NoneInt, ret |-> NoneInt, raised |-> NULL, affected |-> {},
     peers |-> {}]

NoQuery == [called |-> FALSE]

JobInit == [pc |-> "off"]

NoAdapterCall == [called |-> FALSE]

NoCall == [n |-> 0, op |-> "none"]

\* A whole call is counted in last.n and is not made once MaxOps were.
CallsLeft == last.n < MaxOps

\* What a statement meets: it runs, or the store fails under it (the database
\* locked by another process, an I/O error) and it raises.
StoreOutcomes == {"ok", "OperationalError"}

\* events_cache.json does not exist.
NoCache == [exists |-> FALSE]

Init ==
    /\ db = EmptyDb
    /\ now = 0
    /\ writer = NULL
    /\ conn = [p \in Procs |-> IdleConn]
    /\ qres = NoQuery
    /\ job = JobInit
    /\ adapter = NoAdapterCall
    /\ last = NoCall
    /\ cache = NoCache

-----------------------------------------------------------------------------
(* The clock *)

Tick ==
    /\ now < MaxTime
    /\ now' = now + 1
    /\ UNCHANGED <<db, writer, conn, qres, job, adapter, last, cache>>

-----------------------------------------------------------------------------
(* insert_event(event), statement by statement, one connection per call *)

InProgress(p) == conn[p].pc \in {"update", "insert", "commit"}

SameKey(e1, e2) ==
    /\ get(e1, "source") = get(e2, "source")
    /\ get(e1, "source_id") = get(e2, "source_id")

\* with get_db() as conn: sqlite3.connect(DB_FILE); cursor = conn.cursor()
Call(p, ev) ==
    /\ conn[p].pc = "idle"
    /\ db.seq < MaxRows
    /\ LET same == {q \in Procs \ {p} : InProgress(q) /\ SameKey(conn[q].event, ev)}
       IN  conn' = [q \in Procs |->
                      IF q = p THEN [IdleConn EXCEPT !.pc = "update", !.event = ev,
                                                     !.peers = same]
                      ELSE IF q \in same THEN [conn[q] EXCEPT !.peers = @ \cup {p}]
                      ELSE conn[q]]
    /\ UNCHANGED <<db, now, writer, qres, job, adapter, last, cache>>

\* The exception path of get_db(): conn.rollback(); raise e; conn.close()
Rollback(p, exc) ==
    /\ conn' = [conn EXCEPT ![p].pc = "done", ![p].raised = exc, ![p].tx = EmptyDb,
                            ![p].affected = {}]
    /\ writer' = IF writer = p THEN NULL ELSE writer
    /\ UNCHANGED db

\* cursor.execute(UPDATE ...): the statement opens a write transaction, which
\* takes the database's write lock.
Update(p) ==
    /\ conn[p].pc = "update"
    /\ writer = NULL
    /\ LET u == UpdateStmt(db, conn[p].event, now)
       IN  IF u.raised # NULL
           THEN Rollback(p, u.raised)
           ELSE /\ \E lr \in LastRowidAfterUpdate :
                     conn' = [conn EXCEPT
                         ![p].pc = IF NeedsInsert(u.rowcount) THEN "insert" ELSE "commit",
                         ![p].tx = u.tbl,
                         ![p].rowcount = u.rowcount,
                         ![p].lastrowid = lr,
                         ![p].affected = u.ids]
                /\ writer' = p
                /\ UNCHANGED db
    /\ UNCHANGED <<now, qres, job, adapter, last, cache>>

\* The same statement while another connection holds the write lock: once the
\* busy timeout has passed it raises OperationalError('database is locked').
UpdateLocked(p) ==
    /\ conn[p].pc = "update"
    /\ writer # NULL /\ writer # p
    /\ Rollback(p, "OperationalError")
    /\ UNCHANGED <<now, qres, job, adapter, last, cache>>

\* cursor.execute(INSERT ...), when the UPDATE changed no row.
Insert(p) ==
    /\ conn[p].pc = "insert"
    /\ LET i == InsertStmt(conn[p].tx, conn[p].event, now)
       IN  IF i.raised # NULL
           THEN Rollback(p, i.raised)
           ELSE /\ conn' = [conn EXCEPT
                       ![p].pc = "commit",
                       ![p].tx = i.tbl,
                       ![p].lastrowid = CHOOSE id \in i.ids : TRUE,
                       ![p].affected = i.ids]
                /\ UNCHANGED <<db, writer>>
    /\ UNCHANGED <<now, qres, job, adapter, last, cache>>

\* return cursor.lastrowid, then get_db() commits and closes.
Commit(p) ==
    /\ conn[p].pc = "commit"
    /\ db' = conn[p].tx
    /\ writer' = NULL
    /\ conn' = [conn EXCEPT ![p].pc = "done", ![p].ret = conn[p].lastrowid,
                            ![p].tx = EmptyDb]
    /\ UNCHANGED <<now, qres, job, adapter, last, cache>>

\* The caller has the result (or the exception) and may call again.
Return(p) ==
    /\ conn[p].pc = "done"
    /\ conn' = [conn EXCEPT ![p] = IdleConn]
    /\ UNCHANGED <<db, now, writer, qres, job, adapter, last, cache>>

CallAny == \E p \in Procs, ev \in CallerInputs : Call(p, ev)
UpdateAny == \E p \in Procs : Update(p)
UpdateLockedAny == \E p \in Procs : UpdateLocked(p)
InsertAny == \E p \in Procs : Insert(p)
CommitAny == \E p \in Procs : Commit(p)
ReturnAny == \E p \in Procs : Return(p)

Next ==
    \/ Tick
    \/ CallAny
    \/ UpdateAny
    \/ UpdateLockedAny
    \/ InsertAny
    \/ CommitAny
    \/ ReturnAny

Spec == Init /\ [][Next]_vars

-----------------------------------------------------------------------------
(* insert_event(event) as one call of a single caller *)

\* A call that first deletes the rows of the event's source, then inserts.
InsertReplacingSource(tbl, ev, t, lr) ==
    LET kept == [tbl EXCEPT !.events = {r \in @ : r.source # get(ev, "source")}]
        i == InsertStmt(kept, ev, t)
    IN  IF i.raised # NULL
        THEN [raised |-> i.raised, tbl |-> tbl, ret |-> NoneInt]
        ELSE [raised |-> NULL, tbl |-> i.tbl, ret |-> CHOOSE id \in i.ids : TRUE]

\* The whole call: UPDATE, INSERT if no row was updated, commit; any exception
\* rolls the transaction back. lr is what cursor.lastrowid reads after an UPDATE.
insert_event(tbl, ev, t, lr) ==
    LET u == UpdateStmt(tbl, ev, t)
        i == InsertStmt(u.tbl, ev, t)
    IN  IF u.raised # NULL
        THEN [raised |-> u.raised, tbl |-> tbl, ret |-> NoneInt]
        ELSE IF ~NeedsInsert(u.rowcount)
        THEN [raised |-> NULL, tbl |-> u.tbl, ret |-> lr]
        ELSE IF i.raised # NULL
        THEN [raised |-> i.raised, tbl |-> tbl, ret |-> NoneInt]
        ELSE [raised |-> NULL, tbl |-> i.tbl, ret |-> CHOOSE id \in i.ids : TRUE]

InsertEvent ==
    /\ db.seq < MaxRows
    /\ \E ev \in EventInputs, lr \in LastRowidAfterUpdate :
          db' = insert_event(db, ev, now, lr).tbl
    /\ UNCHANGED <<now, writer, conn, qres, job, adapter, last, cache>>

-----------------------------------------------------------------------------
(* get_upcoming_events(min_date, max_date, event_type, limit) *)

DefaultLimit == 100

\* AND date >= ?  when min_date is given, else  AND date >= datetime("now")
MinDateFilter(row, min_date, t) ==
    IF min_date # NoDate
    THEN TextLeq(min_date, row.date)
    ELSE TextLeq(SqlDatetime(t), row.date)

\* AND date < ?  : the upper bound taken as exclusive.
MaxDateFilterExclusive(row, max_date) == max_date # NoDate => TextLess(row.date, max_date)

\* AND date <= ?
MaxDateFilter(row, max_date) == max_date # NoDate => TextLeq(row.date, max_date)

\* AND type = ?
TypeFilter(row, event_type) == event_type # NULL => row.type = event_type

Where(tbl, min_date, max_date, event_type, t) ==
    {r \in tbl.events :
        /\ MinDateFilter(r, min_date, t)
        /\ MaxDateFilter(r, max_date)
        /\ TypeFilter(r, event_type)}

\* ORDER BY date ASC: every order of the rows that is ascending in date; rows
\* of equal date come in any order.
RECURSIVE OrderByDate(_)
OrderByDate(rows) ==
    IF rows = {}
    THEN {<<>>}
    ELSE UNION {{<<r>> \o s : s \in OrderByDate(rows \ {r})} :
                   r \in {x \in rows : \A y \in rows : TextLeq(x.date, y.date)}}

\* LIMIT ?  (a negative limit is no limit)
Limit(s, n) ==
    IF n < 0 \/ n >= Len(s) THEN s ELSE SubSeq(s, 1, n)

QueryDates == {NoDate, isoformat(1)}
QueryTypes == {NULL, "art"}
QueryLimits == {1, DefaultLimit}

\* with get_db() as conn: the SELECT, fetchall(), the rows as dicts. When the
\* store cannot be reached (sqlite3.connect or cursor.execute raises
\* OperationalError) the exception leaves get_db() and the call: nothing is
\* returned, which the record keeps as no rows.
GetUpcomingEvents ==
    /\ CallsLeft
    /\ \E min_date \in QueryDates, max_date \in QueryDates,
          event_type \in QueryTypes, limit \in QueryLimits, outcome \in StoreOutcomes :
          IF outcome = "ok"
          THEN /\ \E s \in OrderByDate(Where(db, min_date, max_date, event_type, now)) :
                     qres' = [called |-> TRUE, min_date |-> min_date,
                              max_date |-> max_date, event_type |-> event_type,
                              limit |-> limit, store |-> outcome, raised |-> NULL,
                              rows |-> Limit(s, limit)]
               /\ last' = [n |-> last.n + 1, op |-> "get_upcoming_events",
                           store |-> outcome, raised |-> NULL]
          ELSE /\ qres' = [called |-> TRUE, min_date |-> min_date,
                           max_date |-> max_date, event_type |-> event_type,
                           limit |-> limit, store |-> outcome, raised |-> outcome,
                           rows |-> <<>>]
               /\ last' = [n |-> last.n + 1, op |-> "get_upcoming_events",
                           store |-> outcome, raised |-> outcome]
    /\ UNCHANGED <<db, now, writer, conn, job, adapter, cache>>

NextQuery ==
    \/ Tick
    \/ InsertEvent
    \/ GetUpcomingEvents

SpecQuery == Init /\ [][NextQuery]_vars

-----------------------------------------------------------------------------
(* geocode_location and calculate_distance *)

PROSPECT_HEIGHTS == [lat |-> "40.6782", lng |-> "-73.9712"]

\* location_text.lower(), as the words of the text.
Lowered(location_text) ==
    CASE location_text = "Prospect Park, Brooklyn, NY" ->
            <<"prospect", "park", ",", "brooklyn", ",", "ny">>
      [] location_text = "Central Library, Brooklyn, NY" ->
            <<"central", "library", ",", "brooklyn", ",", "ny">>
      [] location_text = "Prospect Heights Library, Brooklyn, NY" ->
            <<"prospect", "heights", "library", ",", "brooklyn", ",", "ny">>
      [] location_text = "Park Slope Library, Brooklyn, NY" ->
            <<"park", "slope", "library", ",", "brooklyn", ",", "ny">>
      [] location_text = "Fort Greene Library, Brooklyn, NY" ->
            <<"fort", "greene", "library", ",", "brooklyn", ",", "ny">>
      [] location_text = "Brooklyn, NY" -> <<"brooklyn", ",", "ny">>
      [] location_text = "Williamsburg, Brooklyn, NY" ->
            <<"williamsburg", ",", "brooklyn", ",", "ny">>
      [] location_text = "Red Hook, Brooklyn, NY" ->
            <<"red", "hook", ",", "brooklyn", ",", "ny">>
      [] location_text = "Red Hook" -> <<"red", "hook">>
      [] location_text = "Brooklyn" -> <<"brooklyn">>
      [] OTHER -> <<>>

\* The gazetteer, in insertion order.
brooklyn_locations ==
    << [key |-> <<"prospect", "park">>, coords |-> <<"40.6627", "-73.9700">>],
       [key |-> <<"williamsburg">>, coords |-> <<"40.7081", "-73.9571">>],
       [key |-> <<"park", "slope">>, coords |-> <<"40.6782", "-73.9840">>],
       [key |-> <<"prospect", "heights">>, coords |-> <<"40.6782", "-73.9712">>],
       [key |-> <<"brooklyn", "museum">>, coords |-> <<"40.6712", "-73.9642">>],
       [key |-> <<"brooklyn", "children's", "museum">>, coords |-> <<"40.6694", "-73.9479">>],
       [key |-> <<"brooklyn", "bridge", "park">>, coords |-> <<"40.6981", "-73.9969">>],
       [key |-> <<"red", "hook">>, coords |-> <<"40.6773", "-74.0106">>],
       [key |-> <<"flatbush">>, coords |-> <<"40.6529", "-73.9497">>],
       [key |-> <<"gowanus">>, coords |-> <<"40.6779", "-73.9897">>],
       [key |-> <<"fort", "greene">>, coords |-> <<"40.6915", "-73.9759">>],
       [key |-> <<"crown", "heights">>, coords |-> <<"40.6697", "-73.9442">>],
       [key |-> <<"dumbo">>, coords |-> <<"40.7033", "-73.9878">>],
       [key |-> <<"carroll", "gardens">>, coords |-> <<"40.6795", "-73.9996">>],
       [key |-> <<"boerum", "hill">>, coords |-> <<"40.6865", "-73.9807">>] >>

\* key in location_lower
IsIn(key, text) ==
    \E i \in 1..(Len(text) - Len(key) + 1) : SubSeq(text, i, i + Len(key) - 1) = key

\* The loop taken as returning the last entry that matches, not the first.
LocateLast(text) ==
    LET hits == {i \in DOMAIN brooklyn_locations : IsIn(brooklyn_locations[i].key, text)}
    IN  IF hits # {}
        THEN brooklyn_locations[CHOOSE i \in hits : \A j \in hits : i >= j].coords
        ELSE <<PROSPECT_HEIGHTS.lat, PROSPECT_HEIGHTS.lng>>

\* for key, coords in brooklyn_locations.items(): if key in location_lower:
\* return coords; after the loop, the anchor.
Locate(text) ==
    LET hits == {i \in DOMAIN brooklyn_locations : IsIn(brooklyn_locations[i].key, text)}
    IN  IF hits # {}
        THEN brooklyn_locations[CHOOSE i \in hits : \A j \in hits : i <= j].coords
        ELSE <<PROSPECT_HEIGHTS.lat, PROSPECT_HEIGHTS.lng>>

geocode_location(location_text) == Locate(Lowered(location_text))

\* The haversine distance in miles, kept as a term over its arguments; it is 0
\* between a point and itself.
calculate_distance(lat1, lng1, lat2, lng2) ==
    IF lat1 = lat2 /\ lng1 = lng2
    THEN "0.0"
    ELSE "haversine(" \o lat1 \o "," \o lng1 \o "," \o lat2 \o "," \o lng2 \o ")"

-----------------------------------------------------------------------------
(* The source adapters of scrapers.py *)

\* What an adapter's fetch meets: a 200 response, another status, or an
\* exception (requests.get or BeautifulSoup raising).
FetchOutcomes == {"ok", "http_error", "exception"}

\* (datetime.now() + timedelta(days=n)).isoformat()
DaysFromNow(t, n) == isoformat(t + n * TicksPerDay)

\* An adapter without its try/except: the exception reaches the caller.
Uncontained(outcome, events) ==
    [raised |-> outcome = "exception", events |-> IF outcome = "ok" THEN events ELSE <<>>]

\* try: response = requests.get(...); if response.status_code == 200: parse and
\* append the events; except Exception: print; return events
Contained(outcome, events) ==
    [raised |-> FALSE, events |-> IF outcome = "ok" THEN events ELSE <<>>]

BrooklynPaperEvents(t) ==
    << [title |-> "Brooklyn Paper Family Festival",
        description |-> "Community festival with activities for all ages",
        date |-> DaysFromNow(t, 5),
        location |-> "Prospect Park, Brooklyn, NY",
        type |-> "art",
        url |-> "https://events.brooklynpaper.com",
        source |-> "Brooklyn Paper"] >>

scrape_brooklyn_paper_events(outcome, t) == Contained(outcome, BrooklynPaperEvents(t))

library_branches ==
    <<"Central Library", "Prospect Heights Library", "Park Slope Library",
      "Fort Greene Library">>

BrooklynLibraryEvents(t) ==
    [i \in DOMAIN library_branches |->
        [title |-> "Kids Art Workshop at " \o library_branches[i],
         description |-> "Free art workshop for children aged 7-12",
         date |-> DaysFromNow(t, 2 + (i - 1)),
         location |-> library_branches[i] \o ", Brooklyn, NY",
         type |-> "art",
         url |-> "https://www.bklynlibrary.org/event-series",
         source |-> "Brooklyn Public Library"]]

scrape_brooklyn_library_events(outcome, t) == Contained(outcome, BrooklynLibraryEvents(t))

EventbriteEvents(t) ==
    << [title |-> "Live Jazz Night",
        description |-> "Local jazz musicians perform at Brooklyn venue",
        date |-> DaysFromNow(t, 3),
        location |-> "Brooklyn, NY",
        type |-> "music",
        url |-> "https://www.eventbrite.com/b/ny--brooklyn/music",
        source |-> "Eventbrite"],
       [title |-> "Indie Rock Showcase",
        description |-> "Brooklyn indie bands performing original music",
        date |-> DaysFromNow(t, 7),
        location |-> "Brooklyn, NY",
        type |-> "music",
        url |-> "https://www.eventbrite.com/b/ny--brooklyn/music",
        source |-> "Eventbrite"] >>

scrape_eventbrite_music(outcome, t) == Contained(outcome, EventbriteEvents(t))

WagmagEvents(t) ==
    << [title |-> "Contemporary Art Gallery Opening",
        description |-> "New exhibition featuring emerging Brooklyn artists",
        date |-> DaysFromNow(t, 2),
        location |-> "Williamsburg, Brooklyn, NY",
        type |-> "art",
        url |-> "https://wagmag.org",
        source |-> "WAGMAG"],
       [title |-> "Photography Exhibit",
        description |-> "Black and white street photography of Brooklyn",
        date |-> DaysFromNow(t, 6),
        location |-> "Red Hook, Brooklyn, NY",
        type |-> "art",
        url |-> "https://wagmag.org",
        source |-> "WAGMAG"] >>

scrape_wagmag_art(outcome, t) == Contained(outcome, WagmagEvents(t))

-----------------------------------------------------------------------------
(* scrape_all_sources() *)

\* The adapters in the order scrape_all_sources calls them.
AdapterNames == <<"Brooklyn Paper", "Brooklyn Public Library", "Eventbrite", "WAGMAG">>

\* The calls with Eventbrite and WAGMAG in each other's place.
RunAdapterSwapped(i, outcome, t) ==
    CASE i = 1 -> scrape_brooklyn_paper_events(outcome, t)
      [] i = 2 -> scrape_brooklyn_library_events(outcome, t)
      [] i = 3 -> scrape_wagmag_art(outcome, t)
      [] i = 4 -> scrape_eventbrite_music(outcome, t)

RunAdapter(i, outcome, t) ==
    CASE i = 1 -> scrape_brooklyn_paper_events(outcome, t)
      [] i = 2 -> scrape_brooklyn_library_events(outcome, t)
      [] i = 3 -> scrape_eventbrite_music(outcome, t)
      [] i = 4 -> scrape_wagmag_art(outcome, t)

\* event['distance'] = calculate_distance(anchor, geocode_location(event['location']))
WithDistance(event) ==
    LET c == geocode_location(event.location)
        d == calculate_distance(PROSPECT_HEIGHTS.lat, PROSPECT_HEIGHTS.lng, c[1], c[2])
    IN  [f \in DOMAIN event \cup {"distance"} |-> IF f = "distance" THEN d ELSE event[f]]

\* outcomes[i] is what the i-th adapter's fetch meets. An exception out of an
\* adapter would end the call: nothing in scrape_all_sources catches it.
scrape_all_sources(outcomes, t) ==
    LET res == [i \in DOMAIN AdapterNames |-> RunAdapter(i, outcomes[i], t)]
        all_events == res[1].events \o res[2].events \o res[3].events \o res[4].events
        raising == {i \in DOMAIN res : res[i].raised}
        \* the adapters called, one call each: all of them, or those up to the
        \* first that raised
        called == IF raising = {}
                  THEN Len(AdapterNames)
                  ELSE CHOOSE i \in raising : \A j \in raising : i <= j
    IN  IF raising # {}
        THEN [raised |-> TRUE, events |-> <<>>,
              calls |-> SubSeq(AdapterNames, 1, called)]
        ELSE [raised |-> FALSE,
              events |-> [k \in DOMAIN all_events |-> WithDistance(all_events[k])],
              calls |-> SubSeq(AdapterNames, 1, called)]

-----------------------------------------------------------------------------
(* run_scraper(), the job *)

MaxFaults == 2      \* storage faults injected into one run

ExitClean == 0      \* run_scraper returns: the process ends with status 0
ExitFailed == 1     \* sys.exit(1)
ExitUncaught == 1   \* an uncaught exception ends the interpreter with status 1

\* f"{event.get('title', '')}_{event.get('date', '')}"
SynthSourceId(event) ==
    (IF "title" \in DOMAIN event THEN event.title ELSE "")
        \o "_" \o
    (IF "date" \in DOMAIN event
     THEN (IF event.date = NoDate THEN "None" ELSE ToString(event.date))
     ELSE "")

\* if 'source_id' not in event: event['source_id'] = ...
WithSourceId(event) ==
    IF "source_id" \in DOMAIN event
    THEN event
    ELSE [f \in DOMAIN event \cup {"source_id"} |->
            IF f = "source_id" THEN SynthSourceId(event) ELSE event[f]]

\* INSERT OR REPLACE under one fixed id: the new row takes the place of the log.
LogReplacing(tbl, source, status, events_found, events_added, error_message, t) ==
    [tbl EXCEPT !.runs =
        << [id |-> 1, source |-> source, status |-> status,
            events_found |-> events_found, events_added |-> events_added,
            error_message |-> error_message, started_at |-> t, completed_at |-> t] >>]

\* The INSERT with events_found and events_added bound to each other's column.
LogSwappingCounts(tbl, source, status, events_found, events_added, error_message, t) ==
    [tbl EXCEPT !.runs = Append(@,
        [id |-> Len(@) + 1, source |-> source, status |-> status,
         events_found |-> events_added, events_added |-> events_found,
         error_message |-> error_message, started_at |-> t, completed_at |-> t])]

\* INSERT INTO scraping_runs (...) VALUES (..., CURRENT_TIMESTAMP)
log_scraping_run(tbl, source, status, events_found, events_added, error_message, t) ==
    [tbl EXCEPT !.runs = Append(@,
        [id |-> Len(@) + 1, source |-> source, status |-> status,
         events_found |-> events_found, events_added |-> events_added,
         error_message |-> error_message, started_at |-> t, completed_at |-> t])]

\* The except clause without its sys.exit(1): the function returns.
ExitAfterFailureLoggedZero == ExitClean

\* The exit status of a run that reached the except clause and logged the
\* failure: sys.exit(1).
ExitAfterFailureLogged == ExitFailed

\* A storage fault (the database locked by another process, an I/O error) can
\* be injected while the run has faults left.
Faults == IF job.faults < MaxFaults THEN {FALSE, TRUE} ELSE {FALSE}

Count(b) == IF b THEN 1 ELSE 0

\* print(...); init_db(), outside the try block.
JobStart ==
    /\ job.pc = "off"
    /\ \E fault \in {FALSE, TRUE} :
          job' = [pc |-> IF fault THEN "exited" ELSE "scrape",
                  outcomes |-> <<>>, scrape_raised |-> FALSE, calls |-> <<>>,
                  all_events |-> <<>>, i |-> 1, events_added |-> 0,
                  insert_errors |-> 0, faults |-> Count(fault),
                  error |-> IF fault THEN "OperationalError" ELSE NULL,
                  logged |-> <<>>,
                  exit |-> IF fault THEN ExitUncaught ELSE NoneInt]
    /\ UNCHANGED <<db, now, writer, conn, qres, adapter, last, cache>>

\* all_events = scrape_all_sources(); events_added = 0
JobScrape ==
    /\ job.pc = "scrape"
    /\ \E outcomes \in [DOMAIN AdapterNames -> FetchOutcomes] :
          LET r == scrape_all_sources(outcomes, now)
          IN  job' = [job EXCEPT
                  !.pc = IF r.raised THEN "failed" ELSE "insert",
                  !.outcomes = outcomes,
                  !.scrape_raised = r.raised,
                  !.calls = r.calls,
                  !.error = IF r.raised THEN "Exception" ELSE NULL,
                  !.all_events = r.events]
    /\ UNCHANGED <<db, now, writer, conn, qres, adapter, last, cache>>

\* One pass of the for loop: synthesize the source_id, insert_event(event),
\* events_added += 1; except Exception: print and go on.
JobInsert ==
    /\ job.pc = "insert"
    /\ job.i <= Len(job.all_events)
    /\ \E fault \in Faults, lr \in LastRowidAfterUpdate :
          LET event == WithSourceId(job.all_events[job.i])
              r == insert_event(db, event, now, lr)
              raised == fault \/ r.raised # NULL
          IN  /\ db' = IF raised THEN db ELSE r.tbl
              /\ job' = [job EXCEPT
                      !.all_events[job.i] = event,
                      !.i = @ + 1,
                      !.events_added = IF raised THEN @ ELSE @ + 1,
                      !.insert_errors = IF raised THEN @ + 1 ELSE @,
                      !.faults = @ + Count(fault)]
    /\ UNCHANGED <<now, writer, conn, qres, adapter, last, cache>>

\* After the loop: log_scraping_run(source='all', status='success', ...); an
\* exception from it is caught by the outer except clause.
JobLogSuccess ==
    /\ job.pc = "insert"
    /\ job.i > Len(job.all_events)
    /\ \E fault \in Faults :
          IF fault
          THEN /\ job' = [job EXCEPT !.pc = "failed", !.error = "OperationalError",
                                     !.faults = @ + 1]
               /\ UNCHANGED db
          ELSE /\ db' = log_scraping_run(db, "all", "success", Len(job.all_events),
                                         job.events_added, NULL, now)
               /\ job' = [job EXCEPT !.pc = "exited", !.exit = ExitClean,
                                     !.logged = Append(@, "success")]
    /\ UNCHANGED <<now, writer, conn, qres, adapter, last, cache>>

\* except Exception as e: log_scraping_run(source='all', status='failed', 0, 0,
\* str(e)); sys.exit(1). An exception from this log_scraping_run is not caught.
JobLogFailed ==
    /\ job.pc = "failed"
    /\ \E fault \in Faults :
          IF fault
          THEN /\ job' = [job EXCEPT !.pc = "exited", !.exit = ExitUncaught,
                                     !.faults = @ + 1]
               /\ UNCHANGED db
          ELSE /\ db' = log_scraping_run(db, "all", "failed", 0, 0, job.error, now)
               /\ job' = [job EXCEPT !.pc = "exited", !.exit = ExitAfterFailureLogged,
                                     !.logged = Append(@, "failed")]
    /\ UNCHANGED <<now, writer, conn, qres, adapter, last, cache>>

NextJob ==
    \/ Tick
    \/ JobStart
    \/ JobScrape
    \/ JobInsert
    \/ JobLogSuccess
    \/ JobLogFailed

SpecJob == Init /\ [][NextJob]_vars

-----------------------------------------------------------------------------
(* The browser-rendered adapters of playwright_scraper.py *)

\* What the rendering session meets.
LaunchOutcomes == {"ok", "launch_exception", "new_page_exception"}
GotoOutcomes == {"ok", "http_error", "exception"}
SelectorOutcomes == {"found", "timeout"}
ContentOutcomes == {"ok", "exception"}
FindAllOutcomes == {"ok", "exception"}

\* A card of the rendered page: it has a title element, it has none, or reading
\* it raises.
CardKinds == {"titled", "untitled", "raises"}

Pages == UNION {[1..n -> CardKinds] : n \in 0..MaxCards}

\* PYTHONHASHSEED: hash() of a str differs from one interpreter run to the next.
HashSeeds == {"seed1", "seed2"}

hash(text, seed) == "hash[" \o seed \o "](" \o text \o ")"

RenderEnvs ==
    [launch : LaunchOutcomes, goto : GotoOutcomes, selector : SelectorOutcomes,
     content : ContentOutcomes, find_all : FindAllOutcomes, cards : Pages,
     seed : HashSeeds]

\* The function without the context manager (p = sync_playwright().start(), never
\* stopped): only browser.close() in the finally clause ends the browser.
ScrapeWithoutContextManager(env) ==
    CASE env.launch = "launch_exception" ->
            [raised |-> TRUE, soup |-> FALSE, launched |-> FALSE, closed |-> FALSE,
             stopped |-> FALSE]
      [] env.launch = "new_page_exception" ->
            [raised |-> TRUE, soup |-> FALSE, launched |-> TRUE, closed |-> FALSE,
             stopped |-> FALSE]
      [] env.launch = "ok" /\ (env.goto = "exception" \/ env.content = "exception") ->
            [raised |-> FALSE, soup |-> FALSE, launched |-> TRUE, closed |-> TRUE,
             stopped |-> FALSE]
      [] OTHER ->
            [raised |-> FALSE, soup |-> TRUE, launched |-> TRUE, closed |-> TRUE,
             stopped |-> FALSE]

\* scrape_with_playwright(url, wait_selector, wait_time): launch and new_page
\* run before the try block; goto and content inside it; a selector timeout is
\* caught where it happens; finally: browser.close(). page.goto does not raise on
\* an HTTP error status: the error page is rendered and parsed like any other.
\* All of it runs inside `with sync_playwright() as p:`, whose exit stops the
\* Playwright driver on every path, and with it any browser it launched.
scrape_with_playwright(env) ==
    CASE env.launch = "launch_exception" ->
            [raised |-> TRUE, soup |-> FALSE, launched |-> FALSE, closed |-> FALSE,
             stopped |-> TRUE]
      [] env.launch = "new_page_exception" ->
            [raised |-> TRUE, soup |-> FALSE, launched |-> TRUE, closed |-> FALSE,
             stopped |-> TRUE]
      [] env.launch = "ok" /\ (env.goto = "exception" \/ env.content = "exception") ->
            [raised |-> FALSE, soup |-> FALSE, launched |-> TRUE, closed |-> TRUE,
             stopped |-> TRUE]
      [] OTHER ->
            [raised |-> FALSE, soup |-> TRUE, launched |-> TRUE, closed |-> TRUE,
             stopped |-> TRUE]

\* The browsers open once a call of scrape_with_playwright has returned: those
\* open before it, and its own if neither browser.close() nor the exit of the
\* with block ended it. A call's browser is numbered by the call.
BrowsersAfter(open, page, call) ==
    open \cup (IF page.launched /\ ~page.closed /\ ~page.stopped THEN {call} ELSE {})

CardCap == 5        \* for card in event_cards[:5]

EventbriteCardTitle == "Jazz Night"

EventbritePlaywrightEvent(seed) ==
    [title |-> EventbriteCardTitle,
     description |-> "Brooklyn music event from Eventbrite",
     date |-> NoDate,
     location |-> "Brooklyn, NY",
     type |-> "music",
     url |-> "https://www.eventbrite.com/b/ny--brooklyn/music",
     source |-> "Eventbrite (Playwright)",
     source_id |-> "eventbrite_" \o hash(EventbriteCardTitle, seed)]

\* The loop over event_cards[:5], from card k on, events collected so far: a
\* card with a title appends an event, an exception leaves the loop.
RECURSIVE ExtractCards(_, _, _, _)
ExtractCards(cards, k, seed, events) ==
    IF k > Len(cards) \/ k > CardCap
    THEN [events |-> events, exception |-> FALSE]
    ELSE IF cards[k] = "raises"
    THEN [events |-> events, exception |-> TRUE]
    ELSE ExtractCards(cards, k + 1, seed,
            IF cards[k] = "titled"
            THEN Append(events, EventbritePlaywrightEvent(seed))
            ELSE events)

\* try: soup = scrape_with_playwright(...); if soup: find_all, the loop;
\* except Exception: print; return events
scrape_eventbrite_with_playwright(env) ==
    LET page == scrape_with_playwright(env)
    IN  IF page.raised \/ ~page.soup \/ env.find_all = "exception"
        THEN [raised |-> FALSE, events |-> <<>>]
        ELSE [raised |-> FALSE, events |-> ExtractCards(env.cards, 1, env.seed, <<>>).events]

-----------------------------------------------------------------------------
(* An adapter called on its own *)

CallRequestsAdapter ==
    /\ ~adapter.called
    /\ \E i \in DOMAIN AdapterNames, outcome \in FetchOutcomes :
          LET r == RunAdapter(i, outcome, now)
          IN  adapter' = [called |-> TRUE, kind |-> "requests", name |-> AdapterNames[i],
                          outcome |-> outcome, raised |-> r.raised, events |-> r.events]
    /\ UNCHANGED <<db, now, writer, conn, qres, job, last, cache>>

CallPlaywrightAdapter ==
    /\ ~adapter.called
    /\ CallsLeft
    /\ \E env \in RenderEnvs :
          LET r == scrape_eventbrite_with_playwright(env)
              page == scrape_with_playwright(env)
              open == IF last.op = "scrape_with_playwright" THEN last.browsers ELSE {}
          IN  /\ adapter' = [called |-> TRUE, kind |-> "playwright",
                             name |-> "Eventbrite (Playwright)",
                             env |-> env, raised |-> r.raised, events |-> r.events]
              /\ last' = [n |-> last.n + 1, op |-> "scrape_with_playwright",
                          launched |-> page.launched,
                          browser |-> IF page.launched THEN last.n + 1 ELSE 0,
                          browsers |-> BrowsersAfter(open, page, last.n + 1)]
    /\ UNCHANGED <<db, now, writer, conn, qres, job, cache>>

\* The caller has the list and may call an adapter again.
AdapterReturn ==
    /\ adapter.called
    /\ adapter' = NoAdapterCall
    /\ UNCHANGED <<db, now, writer, conn, qres, job, last, cache>>

NextAdapters ==
    \/ Tick
    \/ CallRequestsAdapter
    \/ CallPlaywrightAdapter
    \/ AdapterReturn

SpecAdapters == Init /\ [][NextAdapters]_vars

-----------------------------------------------------------------------------
(* delete_old_events, log_scraping_run and get_scraping_stats as whole calls *)

\* get_db() with the exception path committing what the body had done.
TransactionKeepingWork(outcome, result, tbl) ==
    IF outcome = "ok"
    THEN [raised |-> NULL, tbl |-> result.tbl, ret |-> result.ret, closed |-> TRUE]
    ELSE [raised |-> outcome, tbl |-> result.tbl, ret |-> NoneInt, closed |-> TRUE]

\* The call inside get_db(): conn.commit() when the body returns; when it
\* raises, conn.rollback() and raise e; finally conn.close() on both paths.
Transaction(outcome, result, tbl) ==
    IF outcome = "ok"
    THEN [raised |-> NULL, tbl |-> result.tbl, ret |-> result.ret, closed |-> TRUE]
    ELSE [raised |-> outcome, tbl |-> tbl, ret |-> NoneInt, closed |-> TRUE]

\* The exception a statement raises under a store outcome, None when it runs.
Exc(outcome) == IF outcome = "ok" THEN NULL ELSE outcome

\* DELETE FROM events WHERE date <= ?  : the cutoff itself taken as old.
DeleteUpToCutoff(tbl, cutoff_date) == {r \in tbl.events : TextLeq(r.date, cutoff_date)}

\* DELETE FROM events WHERE date < ?
DeleteWhere(tbl, cutoff_date) == {r \in tbl.events : TextLess(r.date, cutoff_date)}

\* cutoff_date = (datetime.now() - timedelta(days=days_old)).isoformat();
\* the DELETE; return cursor.rowcount
delete_old_events(tbl, days_old, t) ==
    LET cutoff_date == isoformat(t - days_old * TicksPerDay)
        old == DeleteWhere(tbl, cutoff_date)
    IN  [tbl |-> [tbl EXCEPT !.events = @ \ old], ret |-> Cardinality(old)]

\* days_old: today and yesterday as the cutoff, and a negative value, which puts
\* the cutoff three days ahead.
DaysOld == {-3, 0, 1}

DeleteOldEvents ==
    /\ CallsLeft
    /\ \E days_old \in DaysOld, outcome \in StoreOutcomes :
          LET r == Transaction(outcome, delete_old_events(db, days_old, now), db)
          IN  /\ db' = r.tbl
              /\ last' = [n |-> last.n + 1, op |-> "delete_old_events",
                          days_old |-> days_old, exc |-> Exc(outcome),
                          raised |-> r.raised, ret |-> r.ret, closed |-> r.closed]
    /\ UNCHANGED <<now, writer, conn, qres, job, adapter, cache>>

NextPrune ==
    \/ Tick
    \/ InsertEvent
    \/ DeleteOldEvents

SpecPrune == Init /\ [][NextPrune]_vars

\* Arguments of log_scraping_run: a run that succeeded and one that failed.
RunInputs ==
    {[source |-> "all", status |-> "success", events_found |-> 2, events_added |-> 1,
      error_message |-> NULL],
     [source |-> "Eventbrite", status |-> "failed", events_found |-> 0,
      events_added |-> 0, error_message |-> "timeout"]}

LogScrapingRun ==
    /\ CallsLeft
    /\ \E run \in RunInputs, outcome \in StoreOutcomes :
          LET logged == log_scraping_run(db, run.source, run.status, run.events_found,
                                         run.events_added, run.error_message, now)
              r == Transaction(outcome, [tbl |-> logged, ret |-> NoneInt], db)
          IN  /\ db' = r.tbl
              /\ last' = [n |-> last.n + 1, op |-> "log_scraping_run", run |-> run,
                          exc |-> Exc(outcome), raised |-> r.raised,
                          closed |-> r.closed]
    /\ UNCHANGED <<now, writer, conn, qres, job, adapter, cache>>

\* SUM(...) over the rows of one group.
RECURSIVE SumOver(_, _)
SumOver(ks, f) ==
    IF ks = {}
    THEN 0
    ELSE LET k == CHOOSE x \in ks : TRUE
         IN  f[k] + SumOver(ks \ {k}, f)

\* SELECT source, COUNT(*), SUM(CASE WHEN status = 'success' ...), SUM(events_found),
\* SUM(events_added), MAX(completed_at) FROM scraping_runs GROUP BY source
get_scraping_stats(tbl) ==
    {LET ks == {k \in DOMAIN tbl.runs : tbl.runs[k].source = source}
     IN  [source |-> source,
          total_runs |-> Cardinality(ks),
          successful_runs |->
              SumOver(ks, [k \in ks |-> Count(tbl.runs[k].status = "success")]),
          total_events_found |->
              SumOver(ks, [k \in ks |-> tbl.runs[k].events_found]),
          total_events_added |->
              SumOver(ks, [k \in ks |-> tbl.runs[k].events_added]),
          last_run |->
              CHOOSE t \in {tbl.runs[k].completed_at : k \in ks} :
                  \A k \in ks : tbl.runs[k].completed_at <= t]
        : source \in {tbl.runs[k].source : k \in DOMAIN tbl.runs}}

\* An exception leaves the call with nothing returned, which the record keeps
\* as no groups.
GetScrapingStats ==
    /\ CallsLeft
    /\ \E outcome \in StoreOutcomes :
          last' = [n |-> last.n + 1, op |-> "get_scraping_stats", store |-> outcome,
                   raised |-> IF outcome = "ok" THEN NULL ELSE outcome,
                   ret |-> IF outcome = "ok" THEN get_scraping_stats(db) ELSE {}]
    /\ UNCHANGED <<db, now, writer, conn, qres, job, adapter, cache>>

\* The statement of insert_event the store fails under, if any.
StatementFaults == {"none", "update", "insert"}

\* Events a caller passes to insert_event: complete ones and one without a
\* date, under every key, and with no source.
StoreInputs ==
    {MkEvent(pd[1], pd[2], s, k) :
        pd \in {<<Payload1, isoformat(0)>>, <<Payload2, isoformat(1)>>, <<Payload2, NoDate>>},
        s \in Sources \cup {NULL}, k \in SourceIds \cup {NULL}}

\* insert_event(event) by one caller, with what the call gave: the exception
\* the body raised (IntegrityError from a constraint, OperationalError from
\* the store), what reached the caller, and the tables get_db() left.
CallInsertEvent ==
    /\ CallsLeft
    /\ \E ev \in StoreInputs, lr \in LastRowidAfterUpdate, fault \in StatementFaults :
          LET u == UpdateStmt(db, ev, now)
              body == insert_event(db, ev, now, lr)
              inserts == u.raised = NULL /\ NeedsInsert(u.rowcount)
              exc == IF fault = "update" \/ (fault = "insert" /\ inserts)
                     THEN "OperationalError"
                     ELSE body.raised
              r == Transaction(IF exc = NULL THEN "ok" ELSE exc, body, db)
          IN  /\ db' = r.tbl
              /\ last' = [n |-> last.n + 1, op |-> "insert_event", event |-> ev,
                          exc |-> exc, raised |-> r.raised, ret |-> r.ret,
                          closed |-> r.closed]
    /\ UNCHANGED <<now, writer, conn, qres, job, adapter, cache>>

NextStore ==
    \/ Tick
    \/ CallInsertEvent
    \/ DeleteOldEvents
    \/ LogScrapingRun

SpecStore == Init /\ [][NextStore]_vars

-----------------------------------------------------------------------------
(* run_scraper() as one whole call *)

\* What an adapter's fetch meets in a whole call: it succeeds or it fails (the
\* two ways of failing give the same list and are told apart in SpecJob).
CallFetchOutcomes == {"ok", "exception"}

\* What the two log_scraping_run calls meet; the second is made only when an
\* exception reached the except clause.
LogOutcomes ==
    {<<"ok", "ok">>, <<"OperationalError", "ok">>, <<"OperationalError", "OperationalError">>}

\* What one run meets: init_db, the adapters' fetches, the logs.
RunEnvs ==
    {[init |-> "OperationalError", outcomes |-> [i \in DOMAIN AdapterNames |-> "ok"],
      log_success |-> "ok", log_failed |-> "ok"]}
    \cup
    {[init |-> "ok", outcomes |-> o, log_success |-> l[1], log_failed |-> l[2]] :
        o \in [DOMAIN AdapterNames -> CallFetchOutcomes], l \in LogOutcomes}

\* The for loop from event k on: tbl is the table so far, events the list with
\* the source_ids set so far, added the value of events_added. An insert_event
\* call that raises is printed and the loop goes on.
RECURSIVE InsertAll(_, _, _, _, _)
InsertAll(tbl, events, k, t, added) ==
    IF k > Len(events)
    THEN [tbl |-> tbl, events |-> events, events_added |-> added]
    ELSE LET event == WithSourceId(events[k])
             r == insert_event(tbl, event, t, NoneInt)
         IN  InsertAll(r.tbl, [events EXCEPT ![k] = event], k + 1, t,
                       IF r.raised # NULL THEN added ELSE added + 1)

\* The except clause: log the failure and sys.exit(1); an exception from this
\* log_scraping_run is not caught.
RunFailed(tbl, env, error, t, events) ==
    IF env.log_failed = "ok"
    THEN [tbl |-> log_scraping_run(tbl, "all", "failed", 0, 0, error, t),
          scraped |-> TRUE, events |-> events, logged |-> "failed",
          exit |-> ExitAfterFailureLogged]
    ELSE [tbl |-> tbl, scraped |-> TRUE, events |-> events, logged |-> NULL,
          exit |-> ExitUncaught]

run_scraper(tbl, env, t) ==
    IF env.init # "ok"
    THEN [tbl |-> tbl, scraped |-> FALSE, events |-> <<>>, logged |-> NULL,
          exit |-> ExitUncaught]
    ELSE LET s == scrape_all_sources(env.outcomes, t)
             ins == InsertAll(tbl, s.events, 1, t, 0)
         IN  IF s.raised
             THEN RunFailed(tbl, env, "Exception", t, <<>>)
             ELSE IF env.log_success # "ok"
             THEN RunFailed(ins.tbl, env, env.log_success, t, ins.events)
             ELSE [tbl |-> log_scraping_run(ins.tbl, "all", "success", Len(s.events),
                                            ins.events_added, NULL, t),
                   scraped |-> TRUE, events |-> ins.events, logged |-> "success",
                   exit |-> ExitClean]

RunScraper ==
    /\ CallsLeft
    /\ \E env \in RunEnvs :
          LET r == run_scraper(db, env, now)
          IN  /\ db' = r.tbl
              /\ last' = [n |-> last.n + 1, op |-> "run_scraper", scraped |-> r.scraped,
                          events |-> r.events,
                          logged |-> r.logged, exit |-> r.exit]
    /\ UNCHANGED <<now, writer, conn, qres, job, adapter, cache>>

-----------------------------------------------------------------------------
(* app.py: the cache file and get_events() *)

\* timedelta(hours=1), in clock ticks: a cache written at an earlier tick of
\* the clock is an hour old or older.
CACHE_DURATION == 1

\* now.weekday(), Monday being 0; the clock starts on a Monday.
weekday(t) == (t \div TicksPerDay) % 7

\* load_cache with a cache exactly CACHE_DURATION old still taken as fresh.
LoadCacheUpToDuration(c, t) ==
    IF c.exists /\ c.readable /\ t - Instant(c.timestamp) <= CACHE_DURATION
    THEN [hit |-> TRUE, events |-> c.events]
    ELSE [hit |-> FALSE, events |-> <<>>]

\* load_cache(): None when the file is missing, unreadable (the exception is
\* printed) or too old.
load_cache(c, t) ==
    IF c.exists /\ c.readable /\ t - Instant(c.timestamp) < CACHE_DURATION
    THEN [hit |-> TRUE, events |-> c.events]
    ELSE [hit |-> FALSE, events |-> <<>>]

\* What save_cache meets: the file is written, open() fails and the file is as
\* it was, or json.dump fails after open() has truncated the file.
SaveOutcomes == {"ok", "open_error", "write_error"}

\* save_cache(events): any exception is printed.
save_cache(c, events, outcome, t) ==
    CASE outcome = "ok" ->
            [exists |-> TRUE, readable |-> TRUE, timestamp |-> isoformat(t),
             events |-> events]
      [] outcome = "open_error" -> c
      [] outcome = "write_error" ->
            [exists |-> TRUE, readable |-> FALSE, timestamp |-> NoDate, events |-> <<>>]

\* sample_events with sample_locations: title, description, days from now,
\* location, type, url, lat, lng.
NycSamples ==
    << <<"Contemporary Art Gallery Opening",
         "Exhibition of modern art by emerging Brooklyn artists", 2,
         "132 Grand St, Brooklyn, NY 11249", "art", "https://example.com",
         "40.7058", "-73.9468">>,
       <<"Jazz Night at Blue Note Brooklyn",
         "Live jazz performance featuring local musicians", 3,
         "131 W 3rd St, Brooklyn, NY 11249", "music", "https://example.com",
         "40.7037", "-73.9544">>,
       <<"Kids Art Workshop at Brooklyn Children's Museum",
         "Interactive art workshop for kids aged 7-12", 4,
         "145 Brooklyn Ave, Brooklyn, NY 11213", "art", "https://www.brooklynkids.org/",
         "40.6694", "-73.9479">>,
       <<"Photography Exhibit: Brooklyn Streets",
         "Black and white photography exhibition showcasing Brooklyn street scenes", 5,
         "123 Flatbush Ave, Brooklyn, NY 11217", "art", "https://example.com",
         "40.6824", "-73.9782">>,
       <<"Indie Rock Concert at Music Hall",
         "Local indie bands performing original music", 6,
         "456 7th Ave, Brooklyn, NY 11215", "music", "https://example.com",
         "40.6616", "-73.9794">>,
       <<"Sculpture Garden Installation Opening",
         "Outdoor sculpture exhibition in Prospect Park", 7,
         "Prospect Park, Brooklyn, NY", "art", "https://www.prospectpark.org/",
         "40.6627", "-73.9700">>,
       <<"Classical Music Concert at Brooklyn Museum",
         "String quartet performing classical favorites", 8,
         "200 Eastern Pkwy, Brooklyn, NY 11238", "music", "https://www.brooklynmuseum.org/",
         "40.6712", "-73.9642">>,
       <<"Abstract Painting Workshop",
         "Adult painting class focusing on abstract techniques", 9,
         "789 Atlantic Ave, Brooklyn, NY 11238", "art", "https://example.com",
         "40.6865", "-73.9807">> >>

\* days_until_saturday = (5 - now.weekday()) % 7 or 7
days_until_saturday(t) ==
    IF (5 - weekday(t)) % 7 = 0 THEN 7 ELSE (5 - weekday(t)) % 7

\* weekend_events, on the coming Saturday and Sunday.
NycWeekend(t) ==
    << <<"Weekend Art Walk in Prospect Heights",
         "Self-guided art gallery tour featuring local artists", days_until_saturday(t),
         "Prospect Heights, Brooklyn, NY", "art", "https://example.com",
         "40.6782", "-73.9712">>,
       <<"Sunday Jazz Brunch at Brooklyn Museum",
         "Live jazz music with brunch at the museum cafe", days_until_saturday(t) + 1,
         "200 Eastern Pkwy, Brooklyn, NY 11238", "music", "https://www.brooklynmuseum.org/",
         "40.6712", "-73.9642">>,
       <<"Kids Weekend Workshop: Clay Sculpting",
         "Hands-on clay sculpting workshop for kids aged 7-12", days_until_saturday(t),
         "Park Slope Library, Brooklyn, NY", "art", "https://example.com",
         "40.6616", "-73.9794">> >>

\* fetch_nyc_government_events(): the sample events, each with its distance
\* from the anchor.
fetch_nyc_government_events(t) ==
    LET samples == NycSamples \o NycWeekend(t)
    IN  [k \in DOMAIN samples |->
            [title |-> samples[k][1], description |-> samples[k][2],
             date |-> DaysFromNow(t, samples[k][3]), location |-> samples[k][4],
             type |-> samples[k][5], url |-> samples[k][6],
             distance |-> calculate_distance(PROSPECT_HEIGHTS.lat, PROSPECT_HEIGHTS.lng,
                                             samples[k][7], samples[k][8])]]

fetch_external_api_events == <<>>

\* get_events(): the cached list if load_cache() returns a non-empty one;
\* otherwise scrape_all_sources() inside try/except, the sample events, the
\* external events, save_cache(all_events).
get_events(c, outcomes, save, t) ==
    LET cached_events == load_cache(c, t)
        s == scrape_all_sources(outcomes, t)
        all_events == (IF s.raised THEN <<>> ELSE s.events)
                          \o fetch_nyc_government_events(t) \o fetch_external_api_events
    IN  IF cached_events.hit /\ cached_events.events # <<>>
        THEN [events |-> cached_events.events, scraped |-> FALSE, cache |-> c]
        ELSE [events |-> all_events, scraped |-> TRUE,
              cache |-> save_cache(c, all_events, save, t)]

GetEvents ==
    /\ CallsLeft
    /\ \E outcomes \in [DOMAIN AdapterNames -> CallFetchOutcomes], save \in SaveOutcomes :
          LET r == get_events(cache, outcomes, save, now)
          IN  /\ cache' = r.cache
              /\ last' = [n |-> last.n + 1, op |-> "get_events", scraped |-> r.scraped,
                          events |-> r.events,
                          save |-> IF r.scraped THEN save ELSE "not_called"]
    /\ UNCHANGED <<db, now, writer, conn, qres, job, adapter>>

NextRuns ==
    \/ Tick
    \/ RunScraper
    \/ LogScrapingRun
    \/ DeleteOldEvents
    \/ GetScrapingStats
    \/ GetUpcomingEvents

SpecRuns == Init /\ [][NextRuns]_vars

NextApp ==
    \/ Tick
    \/ GetEvents
    \/ RunScraper

SpecApp == Init /\ [][NextApp]_vars

-----------------------------------------------------------------------------
(* geocode_location called on its own *)

MaxWords == 3       \* words in a location text

\* The words location texts are made of, in the case they are written in.
Vocabulary == {"Prospect", "PARK", "Slope", "Brooklyn", "Museum", "Dumbo", "near"}

\* str.lower() of one word.
lower(word) ==
    CASE word = "Prospect" -> "prospect"
      [] word = "PARK" -> "park"
      [] word = "Slope" -> "slope"
      [] word = "Brooklyn" -> "brooklyn"
      [] word = "Museum" -> "museum"
      [] word = "Dumbo" -> "dumbo"
      [] OTHER -> word

LocationTexts == UNION {[1..n -> Vocabulary] : n \in 0..MaxWords}

\* geocode_location on a text given as its words.
GeocodeLocation ==
    /\ CallsLeft
    /\ \E words \in LocationTexts :
          last' = [n |-> last.n + 1, op |-> "geocode_location", text |-> words,
                   ret |-> Locate([i \in DOMAIN words |-> lower(words[i])])]
    /\ UNCHANGED <<db, now, writer, conn, qres, job, adapter, cache>>

NextGeocoder == GeocodeLocation

SpecGeocoder == Init /\ [][NextGeocoder]_vars

-----------------------------------------------------------------------------
(* The events table after insert_event calls *)

RowsOfKey(tbl, ev) ==
    {r \in tbl.events : r.source = get(ev, "source") /\ r.source_id = get(ev, "source_id")}

SameFields(row, ev) == \A f \in PayloadFields : row[f] = get(ev, f)

\* The step in which caller p's insert_event call commits and returns.
Commits(p) == conn[p].pc = "commit" /\ conn'[p].pc = "done"

\* C1: after any sequence of insert_event calls, with any mix of keys, the
\* events table holds at most one row for each (source, source_id) pair.
C1_OneRowPerKey ==
    \A r1, r2 \in db.events :
        (r1.source = r2.source /\ r1.source_id = r2.source_id) => r1 = r2

\* The same for the pairs whose source_id is not NULL, which the table's
\* UNIQUE(source, source_id) constraint covers.
OneRowPerNonNullKey ==
    \A r1, r2 \in db.events :
        (r1.source = r2.source /\ r1.source_id = r2.source_id /\ r1.source_id # NULL)
            => r1 = r2

\* C2: when two insert_event calls for the same (source, source_id) run
\* concurrently, no interleaving of their update-then-insert steps leaves two
\* rows with that key in the events table.
C2_ConcurrentNoDuplicate ==
    \A p \in Procs : \A q \in conn[p].peers :
        (conn[p].pc = "done" /\ conn[q].pc = "done")
            => Cardinality(RowsOfKey(db, conn[p].event)) <= 1

\* Two overlapping calls for one key whose source_id is not NULL: at most one of
\* them inserts, and one row is left.
ConcurrentNoDuplicateNonNull ==
    \A p \in Procs : \A q \in conn[p].peers :
        (conn[p].pc = "done" /\ conn[q].pc = "done"
            /\ get(conn[p].event, "source_id") # NULL)
            => Cardinality(RowsOfKey(db, conn[p].event)) <= 1

\* C3: calling insert_event twice with the same (source, source_id) and
\* identical field values leaves exactly one row for that key; the second call
\* advances that row's updated_at and leaves its created_at unchanged.
C3_IdempotentUpsert ==
    [][\A p \in Procs :
          LET ev == conn[p].event
              before == {r \in RowsOfKey(db, ev) : SameFields(r, ev)}
              after == RowsOfKey(db', ev)
          IN  (Commits(p) /\ before # {})
                  => /\ Cardinality(after) = 1
                     /\ \A r \in before : \A r2 \in after :
                            /\ r2.updated_at > r.updated_at
                            /\ r2.created_at = r.created_at]_vars

\* What holds of the repeated call when the source_id is not NULL: one row is
\* left, created_at is unchanged and updated_at is the time of the second
\* call, which is later only if the clock has moved on.
IdempotentUpsertNonNull ==
    [][\A p \in Procs :
          LET ev == conn[p].event
              before == {r \in RowsOfKey(db, ev) : SameFields(r, ev)}
              after == RowsOfKey(db', ev)
          IN  (Commits(p) /\ before # {} /\ get(ev, "source_id") # NULL)
                  => /\ Cardinality(after) = 1
                     /\ \A r \in before : \A r2 \in after :
                            /\ r2.id = r.id
                            /\ r2.updated_at >= r.updated_at
                            /\ r2.updated_at <= now
                            /\ r2.created_at = r.created_at
                            /\ SameFields(r2, ev)]_vars

\* C4: when insert_event is called for a key that already has a row, the
\* single stored row afterwards carries the field values (title, description,
\* date, location, latitude, longitude, distance, type, url) of the latest
\* call, not of the earlier one.
C4_UpsertMerge ==
    [][\A p \in Procs :
          LET ev == conn[p].event
          IN  (Commits(p) /\ RowsOfKey(db, ev) # {})
                  => /\ Cardinality(RowsOfKey(db', ev)) = 1
                     /\ \A r \in RowsOfKey(db', ev) : SameFields(r, ev)]_vars

\* The same when the source_id is not NULL.
UpsertMergeNonNull ==
    [][\A p \in Procs :
          LET ev == conn[p].event
          IN  (Commits(p) /\ RowsOfKey(db, ev) # {} /\ get(ev, "source_id") # NULL)
                  => /\ Cardinality(RowsOfKey(db', ev)) = 1
                     /\ \A r \in RowsOfKey(db', ev) : SameFields(r, ev)]_vars

\* C5: insert_event returns the id of the row it affected, both when it
\* inserted a new row and when it updated an existing row for the key.
C5_ReturnsAffectedId ==
    \A p \in Procs :
        (conn[p].pc = "done" /\ conn[p].raised = NULL)
            => conn[p].affected = {conn[p].ret}

\* What the return value is: the new row's id after an insert, and 0 or None,
\* never the id of the updated row, after an update.
ReturnsLastRowid ==
    \A p \in Procs :
        (conn[p].pc = "done" /\ conn[p].raised = NULL)
            => IF NeedsInsert(conn[p].rowcount)
               THEN conn[p].affected = {conn[p].ret}
               ELSE conn[p].ret \in LastRowidAfterUpdate /\ conn[p].ret \notin conn[p].affected

-----------------------------------------------------------------------------
(* The default date filter of get_upcoming_events *)

Returned(q) == {q.rows[i] : i \in DOMAIN q.rows}

\* A get_upcoming_events call with no min_date returns.
DefaultQueryReturns == qres' # qres /\ qres'.raised = NULL /\ qres'.min_date = NoDate

\* C10: get_upcoming_events called with no min_date returns only events whose
\* date is at or after the current time: an event dated before now is never
\* returned and an event dated now or later is not excluded by the date
\* filter.
C10_DefaultOnlyFuture ==
    [][DefaultQueryReturns =>
          /\ \A r \in Returned(qres') : Instant(r.date) >= now
          /\ \A r \in db.events :
                (/\ Instant(r.date) >= now
                 /\ MaxDateFilter(r, qres'.max_date)
                 /\ TypeFilter(r, qres'.event_type)
                 /\ r \notin Returned(qres'))
                    => Len(qres'.rows) = qres'.limit]_vars

\* What the default filter does with isoformat dates: it compares text, and
\* 'T' sorts after the space of datetime("now"), so every event dated on the
\* current day or later passes, also one dated earlier today; no event dated
\* now or later is excluded.
DefaultKeepsToday ==
    [][DefaultQueryReturns =>
          /\ \A r \in Returned(qres') : r.date[1] >= now \div TicksPerDay
          /\ \A r \in db.events :
                (/\ r.date[1] >= now \div TicksPerDay
                 /\ MaxDateFilter(r, qres'.max_date)
                 /\ TypeFilter(r, qres'.event_type)
                 /\ r \notin Returned(qres'))
                    => Len(qres'.rows) = qres'.limit]_vars

-----------------------------------------------------------------------------
(* The job and the orchestrator *)

RecordedStatuses == [k \in DOMAIN db.runs |-> db.runs[k].status]

\* C6: if a storage error occurs while upserting any event during
\* run_scraper, the error is not swallowed: the run is aborted, a ScrapingRun
\* with status 'failed' and the error message is logged, and the job ends with
\* a non-zero exit status.
C6_InsertErrorFailsRun ==
    (job.pc = "exited" /\ job.insert_errors > 0)
        => /\ job.exit # ExitClean
           /\ \E k \in DOMAIN db.runs :
                 db.runs[k].status = "failed" /\ db.runs[k].error_message # NULL

\* What the job does with an upsert error when the log itself succeeds: it goes
\* on with the next event, leaves the event out of events_added, logs
\* 'success' and exits 0.
InsertErrorSwallowed ==
    (job.pc = "exited" /\ job.insert_errors > 0 /\ job.error = NULL)
        => /\ job.exit = ExitClean
           /\ RecordedStatuses = <<"success">>
           /\ job.i = Len(job.all_events) + 1
           /\ db.runs[1].events_added = Len(job.all_events) - job.insert_errors

AdapterEvents(i, t) ==
    CASE i = 1 -> BrooklynPaperEvents(t)
      [] i = 2 -> BrooklynLibraryEvents(t)
      [] i = 3 -> EventbriteEvents(t)
      [] i = 4 -> WagmagEvents(t)

\* Event e as the adapter produced it is in the list.
Carries(list, e) ==
    \E k \in DOMAIN list : \A f \in DOMAIN e : f \in DOMAIN list[k] /\ list[k][f] = e[f]

\* C7: for every subset of adapters that fail (raise internally or get a
\* non-success response), scrape_all_sources still returns normally and its
\* result contains every event produced by each adapter that succeeded.
C7_OrchestratorContainment ==
    [][(job.pc = "scrape" /\ job'.pc # "scrape")
          => /\ ~job'.scrape_raised
             /\ job'.pc = "insert"
             /\ \A i \in DOMAIN AdapterNames :
                   job'.outcomes[i] = "ok"
                       => \A k \in DOMAIN AdapterEvents(i, now) :
                             Carries(job'.all_events, AdapterEvents(i, now)[k])]_vars

\* scrape_all_sources has returned with one adapter having raised internally,
\* one having got a non-success response and one having succeeded.
C7_Witness ==
    /\ job.pc = "insert"
    /\ \E i, j, k \in DOMAIN AdapterNames :
          /\ job.outcomes[i] = "exception"
          /\ job.outcomes[j] = "http_error"
          /\ job.outcomes[k] = "ok"
    /\ job.all_events # <<>>

AllAdaptersFailedRunSucceeds ==
    (job.pc = "exited" /\ job.faults = 0
        /\ \A i \in DOMAIN job.outcomes : job.outcomes[i] # "ok")
        => job.exit = ExitClean /\ RecordedStatuses = <<"success">>
              /\ db.runs[1].events_found = 0

-----------------------------------------------------------------------------
(* The adapters' failure containment *)

\* The call met a non-success response or a transport or parse error.
MetFailure(a) ==
    IF a.kind = "requests"
    THEN a.outcome # "ok"
    ELSE \/ a.env.launch # "ok"
         \/ a.env.goto # "ok"
         \/ a.env.content # "ok"
         \/ a.env.find_all # "ok"
         \/ \E k \in DOMAIN a.env.cards : k <= CardCap /\ a.env.cards[k] = "raises"

\* C8: every source adapter returns an empty list, and never raises to its
\* caller, when its fetch gets a non-success response or when any transport
\* or parse error occurs inside it.
C8_AdapterFailureYieldsEmpty ==
    (adapter.called /\ MetFailure(adapter))
        => ~adapter.raised /\ adapter.events = <<>>

\* What holds of every adapter: it never raises to its caller; the adapters of
\* scrapers.py return an empty list on every failure, and the browser-rendered
\* adapter returns an empty list when the session or the page as a whole fails.
AdapterNeverRaises ==
    adapter.called
        => /\ ~adapter.raised
           /\ (adapter.kind = "requests" /\ adapter.outcome # "ok")
                  => adapter.events = <<>>
           /\ (adapter.kind = "playwright"
                 /\ (adapter.env.launch # "ok" \/ adapter.env.goto = "exception"
                       \/ adapter.env.content # "ok" \/ adapter.env.find_all # "ok"))
                  => adapter.events = <<>>

-----------------------------------------------------------------------------
(* What get_upcoming_events returns *)

\* A get_upcoming_events call returns.
QueryReturns == qres' # qres /\ qres'.called /\ qres'.raised = NULL

\* rows is the first n rows, in ascending date order, of the set matching.
FirstRowsByDate(rows, matching, n) ==
    /\ \A i \in DOMAIN rows : rows[i] \in matching
    /\ \A i, j \in DOMAIN rows : i # j => rows[i] # rows[j]
    /\ Len(rows) = IF n < Cardinality(matching) THEN n ELSE Cardinality(matching)
    /\ \A i, j \in DOMAIN rows : i < j => TextLeq(rows[i].date, rows[j].date)
    /\ \A r \in matching :
          (\A i \in DOMAIN rows : rows[i] # r)
              => \A i \in DOMAIN rows : TextLeq(rows[i].date, r.date)

\* The rows between the bounds that were given, of the type that was given.
WithinGivenBounds(tbl, q) ==
    {r \in tbl.events :
        /\ q.min_date # NoDate => TextLeq(q.min_date, r.date)
        /\ q.max_date # NoDate => TextLeq(r.date, q.max_date)
        /\ q.event_type # NULL => r.type = q.event_type}

WithinBoundsOrNow(tbl, q, t) ==
    {r \in tbl.events :
        /\ TextLeq(IF q.min_date # NoDate THEN q.min_date ELSE SqlDatetime(t), r.date)
        /\ q.max_date # NoDate => TextLeq(r.date, q.max_date)
        /\ q.event_type # NULL => r.type = q.event_type}

-----------------------------------------------------------------------------
(* Retention pruning *)

\* A delete_old_events call returns normally.
DeleteReturns ==
    /\ last'.n = last.n + 1
    /\ last'.op = "delete_old_events"
    /\ last'.raised = NULL

\* The instant days_old days before t.
DaysBefore(t, days_old) == t - days_old * TicksPerDay

\* C12: delete_old_events(days_old) removes exactly the events whose date is
\* earlier than (now minus days_old days), leaves every other event row
\* unchanged, and returns the number of rows it removed.
C12_DeleteRemovesExactlyOld ==
    [][DeleteReturns =>
          /\ db'.events = {r \in db.events : Instant(r.date) >= DaysBefore(now, last'.days_old)}
          /\ last'.ret = Cardinality({r \in db.events :
                                         Instant(r.date) < DaysBefore(now, last'.days_old)})
          /\ db'.runs = db.runs /\ db'.seq = db.seq]_vars

\* A call that removed one of two stored rows and returned 1: the row left is
\* dated at the cutoff or later.
C12_Witness ==
    /\ last.op = "delete_old_events" /\ last.raised = NULL
    /\ last.ret = 1
    /\ db.seq = 2
    /\ Cardinality(db.events) = 1
    /\ \E r \in db.events : Instant(r.date) = DaysBefore(now, last.days_old)

-----------------------------------------------------------------------------
(* The scraping_runs log *)

\* Every row of the log before the step is in the log after it, at its place
\* and with its field values.
LogKept ==
    /\ Len(db'.runs) >= Len(db.runs)
    /\ \A k \in DOMAIN db.runs : db'.runs[k] = db.runs[k]

\* A log_scraping_run call returns normally.
LogReturns ==
    /\ last'.n = last.n + 1
    /\ last'.op = "log_scraping_run"
    /\ last'.raised = NULL

\* C13: the scraping_runs log is append-only: after any sequence of operations
\* of the persistence layer and the job, every ScrapingRun row once written is
\* still present with unchanged field values, and log_scraping_run adds
\* exactly one row per call.
C13_LogAppendOnly ==
    [][/\ LogKept
       /\ LogReturns =>
              /\ Len(db'.runs) = Len(db.runs) + 1
              /\ LET row == db'.runs[Len(db'.runs)]
                 IN  /\ row.source = last'.run.source
                     /\ row.status = last'.run.status
                     /\ row.events_found = last'.run.events_found
                     /\ row.events_added = last'.run.events_added
                     /\ row.error_message = last'.run.error_message]_vars

\* A row written by a log_scraping_run call is still the first row of the log
\* after a run of the job has added its own.
C13_Witness ==
    /\ last.op = "run_scraper"
    /\ Len(db.runs) = 2
    /\ db.runs[1].source = "Eventbrite" /\ db.runs[1].status = "failed"
    /\ db.runs[2].source = "all"
    /\ db.events # {}

-----------------------------------------------------------------------------
(* The callers of the orchestrator *)

\* A caller has invoked scrape_all_sources in this step.
OrchestratorInvoked ==
    /\ last'.n = last.n + 1
    /\ last'.op \in {"run_scraper", "get_events"}
    /\ last'.scraped

\* C14: every invocation of the orchestrator (scrape_all_sources), whichever
\* caller triggers it, results in exactly one ScrapingRun row being written
\* for that invocation.
C14_OneRunPerInvocation ==
    [][OrchestratorInvoked => Len(db'.runs) = Len(db.runs) + 1]_vars

\* What the callers do: run_scraper writes one row for its invocation unless
\* its log_scraping_run calls raise, and get_events writes none.
RunRowOnlyFromJob ==
    [][OrchestratorInvoked =>
          IF last'.op = "run_scraper" /\ last'.logged # NULL
          THEN /\ Len(db'.runs) = Len(db.runs) + 1
               /\ db'.runs[Len(db'.runs)].status = last'.logged
          ELSE db'.runs = db.runs]_vars

-----------------------------------------------------------------------------
(* Coordinates and distance *)

\* scrape_all_sources returns to the job.
ScrapeReturns == job.pc = "scrape" /\ job'.pc = "insert"

\* C15: for every event returned by scrape_all_sources that lacks coordinates,
\* the orchestrator populates latitude and longitude with the geocoder's
\* result for its location and distance with the distance from the anchor
\* point to those coordinates.
C15_CoordinatesPopulated ==
    [][ScrapeReturns =>
          \A k \in DOMAIN job'.all_events :
              LET e == job'.all_events[k]
                  c == geocode_location(e.location)
              IN  /\ "latitude" \in DOMAIN e /\ e.latitude = c[1]
                  /\ "longitude" \in DOMAIN e /\ e.longitude = c[2]
                  /\ "distance" \in DOMAIN e
                  /\ e.distance = calculate_distance(PROSPECT_HEIGHTS.lat,
                                                     PROSPECT_HEIGHTS.lng, c[1], c[2])]_vars

\* What the orchestrator populates: the distance only. The coordinates stay
\* local to the loop, the events carry no latitude or longitude, and the rows
\* the job stores have NULL in both columns.
DistanceOnly ==
    /\ job.pc \in {"insert", "exited"} =>
          \A k \in DOMAIN job.all_events :
              LET e == job.all_events[k]
                  c == geocode_location(e.location)
              IN  /\ "latitude" \notin DOMAIN e /\ "longitude" \notin DOMAIN e
                  /\ e.distance = calculate_distance(PROSPECT_HEIGHTS.lat,
                                                     PROSPECT_HEIGHTS.lng, c[1], c[2])
    /\ \A r \in db.events :
          r.latitude = NULL /\ r.longitude = NULL /\ r.distance # NULL

-----------------------------------------------------------------------------
(* Repeated runs of the job *)

\* What a run observed at the sources: the source and title of each event.
Listing(events) == [k \in DOMAIN events |-> <<events[k].source, events[k].title>>]

\* A run_scraper call follows another, both having scraped, over sources that
\* show the same events.
RunRepeatsUnchanged ==
    /\ last.op = "run_scraper" /\ last.scraped
    /\ last'.n = last.n + 1
    /\ last'.op = "run_scraper" /\ last'.scraped
    /\ Listing(last'.events) = Listing(last.events)

\* C16: repeated job runs over an unchanged source synthesize the same
\* source_id for the same event when the adapter supplies none, so a second
\* run_scraper over unchanged sources updates the existing rows and does not
\* increase the number of stored event rows.
C16_RepeatedRunStable ==
    [][RunRepeatsUnchanged =>
          /\ \A k \in DOMAIN last'.events :
                 last'.events[k].source_id = last.events[k].source_id
          /\ Cardinality(db'.events) = Cardinality(db.events)]_vars

\* What the synthesized source_id is: the title and the date the adapter
\* computed from the time of the run. It is the same in two runs only where
\* the date is, and the second run adds a row for every event whose date moved.
SourceIdFollowsDate ==
    [][RunRepeatsUnchanged =>
          /\ \A k \in DOMAIN last'.events :
                 /\ last'.events[k].source_id = SynthSourceId(last'.events[k])
                 /\ (last'.events[k].source_id = last.events[k].source_id)
                        <=> (last'.events[k].date = last.events[k].date)
          /\ Cardinality(db'.events) =
                 Cardinality(db.events)
                     + Cardinality({k \in DOMAIN last'.events :
                                       \A r \in db.events :
                                           ~KeyMatch(r, last'.events[k])})]_vars

-----------------------------------------------------------------------------
(* The geocoder *)

\* The words of key are a run of consecutive words of text.
Substring(key, text) ==
    \E before \in 0..Len(text) :
        /\ before + Len(key) <= Len(text)
        /\ \A i \in DOMAIN key : text[before + i] = key[i]

\* C17: geocode_location returns, for every location string, the coordinates
\* of the first gazetteer entry in table insertion order whose name is a
\* substring of the lower-cased text, and the fixed Prospect Heights anchor
\* when no entry matches; the same text always yields the same pair.
C17_FirstGazetteerMatch ==
    last.op = "geocode_location" =>
        LET text == [i \in DOMAIN last.text |-> lower(last.text[i])]
            Matches(i) == Substring(brooklyn_locations[i].key, text)
        IN  \/ \E i \in DOMAIN brooklyn_locations :
                  /\ Matches(i)
                  /\ \A j \in 1..(i - 1) : ~Matches(j)
                  /\ last.ret = brooklyn_locations[i].coords
            \/ /\ \A i \in DOMAIN brooklyn_locations : ~Matches(i)
               /\ last.ret = <<"40.6782", "-73.9712">>

\* A text in which 'dumbo' comes before 'brooklyn museum': the call returned
\* the coordinates of 'brooklyn museum', the earlier entry of the table.
C17_Witness ==
    /\ last.op = "geocode_location"
    /\ last.text = <<"Dumbo", "Brooklyn", "Museum">>
    /\ last.ret = <<"40.6712", "-73.9642">>

-----------------------------------------------------------------------------
(* The order of the adapters *)

\* The list adapter i returned to the orchestrator.
Output(i, outcomes, t) == IF outcomes[i] = "ok" THEN AdapterEvents(i, t) ELSE <<>>

\* Event e as the adapter produced it is the event got.
SameAsProduced(got, e) == \A f \in DOMAIN e : f \in DOMAIN got /\ got[f] = e[f]

\* C18: scrape_all_sources invokes each registered adapter exactly once per
\* call (no retry), always in the same order (Brooklyn Paper, Brooklyn Public
\* Library, Eventbrite, WAGMAG), and its result is the concatenation of their
\* outputs with across-adapter and within-adapter order preserved.
C18_FixedOrderConcatenation ==
    [][ScrapeReturns =>
          LET o == job'.outcomes
              expected == Output(1, o, now) \o Output(2, o, now)
                              \o Output(3, o, now) \o Output(4, o, now)
          IN  /\ job'.calls = <<"Brooklyn Paper", "Brooklyn Public Library",
                                "Eventbrite", "WAGMAG">>
              /\ Len(job'.all_events) = Len(expected)
              /\ \A k \in DOMAIN expected :
                     SameAsProduced(job'.all_events[k], expected[k])]_vars

\* All four adapters succeeded: the nine events are in the list, the two of
\* Eventbrite before the two of WAGMAG.
C18_Witness ==
    /\ job.pc = "insert"
    /\ \A i \in DOMAIN job.outcomes : job.outcomes[i] = "ok"
    /\ Len(job.all_events) = 9
    /\ job.calls = AdapterNames
    /\ job.all_events[6].source = "Eventbrite" /\ job.all_events[8].source = "WAGMAG"

-----------------------------------------------------------------------------
(* What each operation leaves alone *)

Keys(tbl) == {<<r.source, r.source_id>> : r \in tbl.events}

\* A whole call of operation op is made in this step.
Calls(op) == last'.n = last.n + 1 /\ last'.op = op

\* C19: event rows are removed only by delete_old_events: insert_event,
\* log_scraping_run and run_scraper never decrease the set of stored event
\* keys, and the query operations get_upcoming_events and get_scraping_stats
\* leave both tables unchanged.
C19_OnlyPruningRemoves ==
    [][/\ ~Calls("delete_old_events") => Keys(db) \subseteq Keys(db')
       /\ (Calls("get_upcoming_events") \/ Calls("get_scraping_stats")) => db' = db]_vars

\* After a run of the job stored its events, a delete_old_events call removed
\* some of them and left the others.
C19_Witness ==
    /\ last.op = "delete_old_events" /\ last.raised = NULL
    /\ last.ret > 0
    /\ db.events # {}
    /\ Len(db.runs) = 1 /\ db.runs[1].status = "success"

-----------------------------------------------------------------------------
(* Browser sessions *)

-----------------------------------------------------------------------------
(* The query API when the store cannot be reached *)

\* C21: when the store is unreachable, get_upcoming_events and
\* get_scraping_stats report an empty result set and a generic error
\* indicator; they do not raise and expose no internal error detail. (The
\* values the two functions return have no place for an indicator; the formula
\* asks for the call to return, with an empty result.)
C21_UnreachableReportsEmpty ==
    /\ (qres.called /\ qres.store # "ok") => (qres.raised = NULL /\ qres.rows = <<>>)
    /\ (last.op = "get_scraping_stats" /\ last.store # "ok")
           => (last.raised = NULL /\ last.ret = {})

\* What the two functions do: the exception of the store reaches the caller
\* exactly when the store failed, and a call that returns has met no failure.
StoreErrorPropagates ==
    /\ qres.called => (qres.raised # NULL <=> qres.store # "ok")
    /\ last.op = "get_scraping_stats" => (last.raised # NULL <=> last.store # "ok")
    /\ last.op \in {"get_scraping_stats", "get_upcoming_events"}
           => last.raised \in {NULL, "OperationalError"}

-----------------------------------------------------------------------------
(* Two writers of one key *)

\* Caller p's call has ended and it was the call that inserted its key.
InsertedKey(p) ==
    conn[p].pc = "done" /\ conn[p].raised = NULL /\ NeedsInsert(conn[p].rowcount)

Complete(ev) == \A f \in InsertNotNull : get(ev, f) # NullOf(f)

\* Caller p's call overlapped the call of another writer q of the same key, q
\* inserted the key, and p's call ended without inserting it.
LostInsertRace(p, q) ==
    /\ q \in conn[p].peers /\ p \in conn[q].peers
    /\ InsertedKey(q)
    /\ conn[p].pc = "done" /\ ~InsertedKey(p)
    /\ get(conn[p].event, "source_id") # NULL
    /\ Complete(conn[p].event)

InsertNeverMeetsItsKey ==
    \A p \in Procs :
        conn[p].pc = "insert"
            => ~\E r \in conn[p].tx.events : KeyMatch(r, conn[p].event)

\* What the call that lost the race does: it raises OperationalError from its
\* UPDATE, having changed nothing, or it updates the row the other writer
\* inserted.
RaceLoserLockedOrUpdates ==
    \A p \in Procs : \A q \in Procs :
        LostInsertRace(p, q)
            => \/ conn[p].raised = "OperationalError" /\ conn[p].affected = {}
               \/ /\ conn[p].raised = NULL /\ conn[p].rowcount = 1
                  /\ \A r \in RowsOfKey(db, conn[p].event) : SameFields(r, conn[p].event)

-----------------------------------------------------------------------------
(* get_events and the cache file *)

\* One hour, in clock ticks.
OneHour == CACHE_DURATION

\* events_cache.json exists, can be read and was written less than one hour ago.
WrittenWithinTheHour(c, t) ==
    c.exists /\ c.readable /\ t - Instant(c.timestamp) < OneHour

\* C23: get_events serves the cached list without invoking scrape_all_sources
\* whenever a cache written less than one hour ago exists; in every other case
\* (no cache, unreadable cache, cache one hour old or older) it re-runs the
\* orchestrator and overwrites the cache with the new list and the current
\* timestamp.
C23_CacheOrOverwrite ==
    [][Calls("get_events") =>
          IF WrittenWithinTheHour(cache, now)
          THEN /\ ~last'.scraped
               /\ last'.events = cache.events
               /\ cache' = cache
          ELSE /\ last'.scraped
               /\ cache'.exists /\ cache'.readable
               /\ cache'.events = last'.events
               /\ cache'.timestamp = isoformat(now)]_vars

\* C23 as it holds: the same, the cache being overwritten with the new list
\* and the current timestamp when save_cache can write the file; when open()
\* fails the file stays as it was, when json.dump fails it is left unreadable,
\* and in both cases the new list is still what get_events returns.
C23_CacheOrRescrape ==
    [][Calls("get_events") =>
          IF WrittenWithinTheHour(cache, now)
          THEN /\ ~last'.scraped
               /\ last'.events = cache.events
               /\ cache' = cache
          ELSE /\ last'.scraped
               /\ last'.events # <<>>
               /\ last'.save = "ok" =>
                      /\ cache'.exists /\ cache'.readable
                      /\ cache'.events = last'.events
                      /\ cache'.timestamp = isoformat(now)
               /\ last'.save = "open_error" => cache' = cache
               /\ last'.save = "write_error" => cache'.exists /\ ~cache'.readable]_vars

\* A second get_events call within the hour served the list the first call had
\* written to the cache.
C23_Witness ==
    /\ last.op = "get_events" /\ last.n = 2
    /\ ~last.scraped
    /\ cache.exists /\ cache.readable
    /\ last.events = cache.events
    /\ cache.timestamp = isoformat(now)

-----------------------------------------------------------------------------
(* Exceptions inside the writing operations *)

WritingOps == {"insert_event", "delete_old_events", "log_scraping_run"}

\* A statement inside a call of a writing operation raises in this step.
StatementRaises ==
    /\ last'.n = last.n + 1
    /\ last'.op \in WritingOps
    /\ last'.exc # NULL

\* C24: if any statement inside insert_event, delete_old_events or
\* log_scraping_run raises, both tables are left exactly as they were before
\* the call, the exception reaches the caller, and the connection is closed.
C24_RaiseRollsBack ==
    [][StatementRaises =>
          /\ db'.events = db.events
          /\ db'.runs = db.runs
          /\ db'.seq = db.seq
          /\ last'.raised = last'.exc
          /\ last'.closed]_vars

\* An insert_event call for a key that has a row raised: the row is as the
\* earlier call stored it.
C24_Witness ==
    /\ last.op = "insert_event" /\ last.exc # NULL /\ last.raised = last.exc
    /\ \E r \in db.events :
          /\ r.source = last.event.source /\ r.source_id = last.event.source_id
          /\ r.source_id # NULL
          /\ r.title # last.event.title

-----------------------------------------------------------------------------
(* The ScrapingRun row of a run *)

\* C25: every ScrapingRun row written by run_scraper has events_added <=
\* events_found; a 'success' row has events_found equal to the number of events
\* the orchestrator returned, events_added equal to the number of those whose
\* upsert did not raise, and a null error_message; a 'failed' row has
\* events_found = events_added = 0 and a non-null error_message. (The run
\* starts on empty tables and its events have distinct keys, so the upserts
\* that did not raise are also the rows stored.)
C25_RunRowCounts ==
    \A k \in DOMAIN db.runs :
        LET run == db.runs[k]
        IN  /\ run.events_added <= run.events_found
            /\ run.status \in {"success", "failed"}
            /\ run.status = "success" =>
                   /\ run.events_found = Len(job.all_events)
                   /\ run.events_added = Len(job.all_events) - job.insert_errors
                   /\ run.events_added = Cardinality(db.events)
                   /\ run.error_message = NULL
            /\ run.status = "failed" =>
                   /\ run.events_found = 0
                   /\ run.events_added = 0
                   /\ run.error_message # NULL

\* A run whose orchestrator returned events, some of whose upserts raised, has
\* logged its 'success' row.
C25_Witness ==
    /\ job.pc = "exited"
    /\ Len(db.runs) = 1 /\ db.runs[1].status = "success"
    /\ job.insert_errors > 0
    /\ db.runs[1].events_added > 0
    /\ db.runs[1].events_added < db.runs[1].events_found

\* A run whose 'success' row could not be written has logged a 'failed' row,
\* after storing events.
FailedRowAfterUpserts ==
    /\ job.pc = "exited"
    /\ Len(db.runs) = 1 /\ db.runs[1].status = "failed"
    /\ db.events # {}

-----------------------------------------------------------------------------
(* The NOT NULL columns of events *)

RequiredColumns == {"title", "date", "location", "type", "source"}

NoNullRequired(tbl) ==
    \A r \in tbl.events : \A f \in RequiredColumns : r[f] # NullOf(f)

\* An insert_event call is made in this step for a key that has no row, with
\* an event whose date is null.
InsertsNewKeyWithoutDate ==
    /\ Calls("insert_event")
    /\ get(last'.event, "date") = NoDate
    /\ ~\E r \in db.events : KeyMatch(r, last'.event)

RaisingUpsertSkipped ==
    [][(job.pc = "insert" /\ job'.pc = "insert" /\ job'.insert_errors # job.insert_errors)
          => /\ job'.i = job.i + 1
             /\ job'.events_added = job.events_added
             /\ db' = db]_vars

-----------------------------------------------------------------------------
(* Events with a null source_id *)

\* An insert_event call with a null source_id returns in this step.
InsertsWithNullSourceId ==
    /\ Calls("insert_event")
    /\ get(last'.event, "source_id") = NULL
    /\ last'.raised = NULL

\* C27: insert_event called with an event whose source_id is null never matches
\* an existing row in its update step, so each such call inserts a new row and
\* N calls with the same source and null source_id leave N rows; run_scraper
\* synthesizes a source_id only when the key is absent from the event, not when
\* it is present with a null value.
C27_NullSourceIdAlwaysInserts ==
    [][InsertsWithNullSourceId =>
          /\ db.events \subseteq db'.events
          /\ Cardinality(db'.events) = Cardinality(db.events) + 1
          /\ \A r \in db'.events \ db.events :
                 /\ r.source = last'.event.source
                 /\ r.source_id = NULL
                 /\ SameFields(r, last'.event)
                 /\ r.id = last'.ret
          /\ "source_id" \in DOMAIN last'.event
          /\ WithSourceId(last'.event) = last'.event]_vars

\* Two calls with the same event, its source_id null, have left two rows.
C27_Witness ==
    /\ last.op = "insert_event" /\ last.n = 2 /\ last.raised = NULL
    /\ get(last.event, "source_id") = NULL
    /\ Cardinality(db.events) = 2
    /\ \A r \in db.events :
          /\ r.source = last.event.source
          /\ r.source_id = NULL
          /\ SameFields(r, last.event)

\* In run_scraper the key is absent from every event the orchestrator returns,
\* and each is stored under the synthesized source_id.
AbsentSourceIdSynthesized ==
    /\ "source_id" \notin DOMAIN BrooklynPaperEvents(now)[1]
    /\ \A r \in db.events :
          /\ r.source_id # NULL
          /\ r.source_id = SynthSourceId([title |-> r.title, date |-> r.date])

====
